---- MODULE Spec2Model ----
(***************************************************************************)
(* Model of the retrieval-augmented answer service with a semantic cache:  *)
(* start-up (main), CSV ingestion, and the `prompt` request handler, over  *)
(* an external vector store, embedding service and generative service.     *)
(***************************************************************************)
EXTENDS Integers, Sequences, FiniteSets, TLC

(* ---------------------------------------------------------------------- *)
(* Bounds                                                                  *)
(* ---------------------------------------------------------------------- *)
\* number of requests the router handles (concurrently) in one run
NumReqs == 2

Reqs == 1..NumReqs

(* ---------------------------------------------------------------------- *)
(* Program constants                                                       *)
(* ---------------------------------------------------------------------- *)
REGULAR_COLLECTION_NAME == "my-collection"
CACHE_COLLECTION_NAME == "my-collection_cached"

CollectionNames == {REGULAR_COLLECTION_NAME, CACHE_COLLECTION_NAME}

\* the status of every error response
INTERNAL_SERVER_ERROR == 500

(* ---------------------------------------------------------------------- *)
(* Values of the environment: texts are sequences of characters            *)
(* ---------------------------------------------------------------------- *)
QUOTE == "\""
BSLASH == "\\"
NEWLINE == "\n"

\* prompts a caller may send
Prompts == {<<"p">>, <<"q">>}

\* the embedding model: the vector it computes for a text (2-dimensional
\* stand-ins for the 1536-dimensional vectors); the prompts "p" and "q"
\* are near duplicates, the line "x" is near both and the line "y" is far
EmbeddingOf(text) ==
    IF text = <<"p">> THEN <<2, 0>>
    ELSE IF text = <<"q">> THEN <<2, 1>>
    ELSE IF text = <<"x">> THEN <<3, 1>>
    ELSE <<0, 2>>

\* completions the generative service may return
Answers == {<<"a">>, <<"s", QUOTE>>}

\* contents text.csv may have: a header line, then data lines
Files == {<<"h">>, <<"h", NEWLINE, "x", NEWLINE, "y">>}

None == <<"none">>

\* the handler has not returned: the caller has no response
NoResponse == [status |-> 0, body |-> <<>>]

(* ---------------------------------------------------------------------- *)
(* Pure functions                                                          *)
(* ---------------------------------------------------------------------- *)
\* Rust's Debug escaping of one character of a string
EscapeChar(c) ==
    IF c = QUOTE THEN <<BSLASH, QUOTE>>
    ELSE IF c = BSLASH THEN <<BSLASH, BSLASH>>
    ELSE IF c = NEWLINE THEN <<BSLASH, "n">>
    ELSE <<c>>

RECURSIVE EscapeDebug(_)
EscapeDebug(s) ==
    IF s = <<>> THEN <<>> ELSE EscapeChar(Head(s)) \o EscapeDebug(Tail(s))

\* `.to_string()` of a payload Value holding a string: the store client's
\* Display of a string value writes it with `{:?}`, i.e. quoted and escaped
ValueToString(s) == <<QUOTE>> \o EscapeDebug(s) \o <<QUOTE>>

\* str::lines(): split at newlines, a final newline opens no further line
RECURSIVE LinesAcc(_, _)
LinesAcc(s, cur) ==
    IF s = <<>> THEN (IF cur = <<>> THEN <<>> ELSE <<cur>>)
    ELSE IF Head(s) = NEWLINE THEN <<cur>> \o LinesAcc(Tail(s), <<>>)
    ELSE LinesAcc(Tail(s), Append(cur, Head(s)))

Lines(s) == LinesAcc(s, <<>>)

\* .lines().skip(1).collect()
Skip1(ls) == IF ls = <<>> THEN <<>> ELSE Tail(ls)

ChunkedFileContents(file_contents) == Skip1(Lines(file_contents))

Dot(u, v) == u[1] * v[1] + u[2] * v[2]

SqNorm(u) == Dot(u, u)

SqDist(u, v) == (u[1] - v[1]) * (u[1] - v[1]) + (u[2] - v[2]) * (u[2] - v[2])

\* p is at least as good a match for q as o under the collection's metric
\* (Euclid: smaller distance; Cosine: larger cosine, components are >= 0)
AtLeastAsNear(distance, q, p, o) ==
    IF distance = "Euclid"
    THEN SqDist(q, p.vector) <= SqDist(q, o.vector)
    ELSE Dot(q, p.vector) * Dot(q, p.vector) * SqNorm(o.vector)
            >= Dot(q, o.vector) * Dot(q, o.vector) * SqNorm(p.vector)

\* the points a search with limit 1 may return first: every best match
\* (the store orders best match first, exact ties in any order)
Top1(distance, points, q) ==
    {p \in points : \A o \in points : AtLeastAsNear(distance, q, p, o)}

(* ---------------------------------------------------------------------- *)
(* State                                                                   *)
(* ---------------------------------------------------------------------- *)
VARIABLES
    mainPc,         \* position of main: create1, create2, read_file,
                    \* embed_file, upsert_file, serving, failed
    mainErr,        \* the error main returned with, or "none"
    declared,       \* collections a create call of this start-up declared
    collections,    \* the store: name -> "absent" or its distance metric
    points,         \* the store: name -> points a search of it sees
    wal,            \* the store: name -> upserts acknowledged, not yet applied
    nextId,         \* source of fresh point identifiers (uuid v4)
    file_contents,  \* ingestion: text read from text.csv
    embeddings_vec, \* ingestion: embeddings still to upsert
    pc,             \* per request: position in the `prompt` handler
    promptText,     \* per request: the prompt of the request body
    embedding,      \* per request: `embedding`
    search_result,  \* per request: `search_result`
    llm_response,   \* per request: `llm_response`
    response,       \* per request: what the handler returned
    calls           \* per request: the RAGSystem calls made, in order

storeVars == <<collections, points, wal, nextId>>
mainVars == <<mainPc, mainErr, declared, file_contents, embeddings_vec>>
reqVars == <<pc, promptText, embedding, search_result, llm_response,
             response, calls>>
vars == <<mainPc, mainErr, declared, collections, points, wal, nextId,
          file_contents, embeddings_vec, pc, promptText, embedding,
          search_result, llm_response, response, calls>>

\* the store persists across process starts: at start-up each collection is
\* absent or was declared by an earlier start; no request has arrived
Init ==
    /\ mainPc = "create1"
    /\ mainErr = "none"
    /\ declared = {}
    /\ collections \in {c \in [CollectionNames -> {"absent", "Cosine", "Euclid"}] :
            /\ c[REGULAR_COLLECTION_NAME] \in {"absent", "Cosine"}
            /\ c[CACHE_COLLECTION_NAME] \in {"absent", "Euclid"}}
    /\ points = [name \in CollectionNames |-> {}]
    /\ wal = [name \in CollectionNames |-> <<>>]
    /\ nextId = 1
    /\ file_contents = None
    /\ embeddings_vec = <<>>
    /\ pc = [r \in Reqs |-> "idle"]
    /\ promptText = [r \in Reqs |-> None]
    /\ embedding = [r \in Reqs |-> None]
    /\ search_result = [r \in Reqs |-> None]
    /\ llm_response = [r \in Reqs |-> None]
    /\ response = [r \in Reqs |-> NoResponse]
    /\ calls = [r \in Reqs |-> <<>>]

(* ---------------------------------------------------------------------- *)
(* The vector store (external service)                                     *)
(* ---------------------------------------------------------------------- *)
\* replies the store may give to a create call: a fresh name is created or
\* the call fails in transport; for an existing name the store reports
\* "already exists" (a create-or-noop store answers ok) or fails in transport
CreateReplies(name) ==
    IF collections[name] = "absent" THEN {"ok", "transport"}
    ELSE {"ok", "already_exists", "transport"}

\* replies to a search or an upsert: a missing collection is an error
PointReplies(name) ==
    IF collections[name] = "absent" THEN {"not_found"}
    ELSE {"ok", "transport"}

\* variant: the log is written back from a stale copy, dropping the
\* upserts acknowledged meanwhile
UpsertPointsLostUpdate(name, pt) ==
    wal' = [wal EXCEPT ![name] = <<pt>>]

\* variant: every upsert goes to the knowledge collection
UpsertPointsRegular(name, pt) ==
    wal' = [wal EXCEPT ![REGULAR_COLLECTION_NAME] = Append(@, pt)]

\* upsert_points(name, None, vec![pt], None): the non-blocking upsert; the
\* store acknowledges the write once it is logged and applies it later
UpsertPoints(name, pt) ==
    wal' = [wal EXCEPT ![name] = Append(@, pt)]

\* an upsert inserts the point, or replaces the point that has its id
Upserted(pts, pt) ==
    {p \in pts : p.id # pt.id} \cup {pt}

\* the store applies the oldest acknowledged upsert of a collection; from
\* then on searches see the point
StoreApply(name) ==
    /\ wal[name] # <<>>
    /\ points' = [points EXCEPT ![name] = Upserted(@, Head(wal[name]))]
    /\ wal' = [wal EXCEPT ![name] = Tail(@)]

RECURSIVE UpsertedAll(_, _)
UpsertedAll(pts, log) ==
    IF log = <<>> THEN pts
    ELSE UpsertedAll(Upserted(pts, Head(log)), Tail(log))

\* every point the store holds of a collection, applied or not
Stored(name) ==
    UpsertedAll(points[name], wal[name])

\* PointStruct::new(uuid::Uuid::new_v4().to_string(), vector, payload)
PointStruct(id, vector, payload) ==
    [id |-> id, vector |-> vector, payload |-> payload]

(* ---------------------------------------------------------------------- *)
(* Start-up: main                                                          *)
(* ---------------------------------------------------------------------- *)
\* main returns Err(e): the service never serves
MainFail(e) ==
    /\ mainPc' = "failed"
    /\ mainErr' = e

\* RAGSystem::create_cache_collection, called at `from`; `.await?` hands any
\* error of the store to main, which returns it
CreateCacheCollectionAt(from, to) ==
    /\ mainPc = from
    /\ \E reply \in CreateReplies(CACHE_COLLECTION_NAME) :
        IF reply = "ok"
        THEN /\ collections' = [collections EXCEPT ![CACHE_COLLECTION_NAME] =
                    IF @ = "absent" THEN "Euclid" ELSE @]
             /\ declared' = declared \cup {CACHE_COLLECTION_NAME}
             /\ mainPc' = to
             /\ UNCHANGED mainErr
        ELSE /\ MainFail(reply)
             /\ UNCHANGED <<collections, declared>>
    /\ UNCHANGED <<points, wal, nextId, file_contents, embeddings_vec>>
    /\ UNCHANGED reqVars

\* main: first `rag.create_cache_collection().await?`
MainCreate1 == CreateCacheCollectionAt("create1", "create2")

\* main: second `rag.create_cache_collection().await?`
MainCreate2 == CreateCacheCollectionAt("create2", "read_file")

\* embed_and_upsert_csv_file: std::fs::read_to_string(&file_path)?
IngestReadFile ==
    /\ mainPc = "read_file"
    /\ \/ /\ MainFail("io")
          /\ UNCHANGED file_contents
       \/ \E f \in Files :
            /\ file_contents' = f
            /\ mainPc' = "embed_file"
            /\ UNCHANGED mainErr
    /\ UNCHANGED <<declared, embeddings_vec>>
    /\ UNCHANGED storeVars
    /\ UNCHANGED reqVars

\* what the embedding service may return for a batch of inputs: nothing,
\* or one embedding per input, in the order of the inputs
BatchEmbeddings(inputs) ==
    {<<>>, [i \in 1..Len(inputs) |-> EmbeddingOf(inputs[i])]}

\* embed_and_upsert_csv_file: the batch embedding request and the
\* is_empty check
IngestEmbed ==
    /\ mainPc = "embed_file"
    /\ \/ /\ MainFail("openai")
          /\ UNCHANGED embeddings_vec
       \/ \E data \in BatchEmbeddings(ChunkedFileContents(file_contents)) :
            IF data = <<>>
            THEN /\ MainFail("There were no embeddings returned by OpenAI")
                 /\ UNCHANGED embeddings_vec
            ELSE /\ embeddings_vec' = data
                 /\ mainPc' = "upsert_file"
                 /\ UNCHANGED mainErr
    /\ UNCHANGED <<declared, file_contents>>
    /\ UNCHANGED storeVars
    /\ UNCHANGED reqVars

\* variant: the payload field is named `text`
UpsetEmbeddingTextField(emb, contents) ==
    PointStruct(nextId, emb, [text |-> contents])

\* upset_embedding(embedding, file_contents): one point of the knowledge
\* collection whose payload is {"document": file_contents}
UpsetEmbedding(emb, contents) ==
    PointStruct(nextId, emb, [document |-> contents])

\* embed_and_upsert_csv_file: one iteration of the upsert loop; after the
\* last one main builds the router and serves
IngestUpsert ==
    /\ mainPc = "upsert_file"
    /\ embeddings_vec # <<>>
    /\ \E reply \in PointReplies(REGULAR_COLLECTION_NAME) :
        IF reply = "ok"
        THEN /\ UpsertPoints(REGULAR_COLLECTION_NAME,
                    UpsetEmbedding(Head(embeddings_vec), file_contents))
             /\ nextId' = nextId + 1
             /\ embeddings_vec' = Tail(embeddings_vec)
             /\ mainPc' = IF Tail(embeddings_vec) = <<>>
                          THEN "serving" ELSE "upsert_file"
             /\ UNCHANGED mainErr
        ELSE /\ MainFail(reply)
             /\ UNCHANGED <<wal, nextId, embeddings_vec>>
    /\ UNCHANGED <<declared, file_contents, collections, points>>
    /\ UNCHANGED reqVars

(* ---------------------------------------------------------------------- *)
(* RAGSystem: the results its methods may return                           *)
(* ---------------------------------------------------------------------- *)
Ok(v) == [kind |-> "Ok", value |-> v]

Err(e) == [kind |-> "Err", value |-> e]

\* the call does not return: the task handling the request panics
Panicked(e) == [kind |-> "Panic", value |-> e]

\* embed_prompt: the request fails, or the service returns no embedding,
\* or the first embedding of the response is returned
EmbedPromptResults(p) ==
    {Err("openai"), Err("There were no embeddings returned by OpenAI!"),
     Ok(EmbeddingOf(p))}

\* variant: only a cached point at distance 0 counts as a match
SearchCacheResultsThreshold(q) ==
    UNION {IF reply # "ok" THEN {Err(reply)}
           ELSE IF \A pt \in points[CACHE_COLLECTION_NAME] :
                        SqDist(q, pt.vector) > 0
                THEN {Err("There's nothing matching.")}
           ELSE {Ok(ValueToString(pt.payload.answer)) :
                    pt \in Top1(collections[CACHE_COLLECTION_NAME],
                                points[CACHE_COLLECTION_NAME], q)}
          : reply \in PointReplies(CACHE_COLLECTION_NAME)}

\* search_cache: limit-1 search of the cache collection; the `answer` field
\* of the first result, converted with to_string()
SearchCacheResults(q) ==
    UNION {IF reply # "ok" THEN {Err(reply)}
           ELSE IF points[CACHE_COLLECTION_NAME] = {}
                THEN {Err("There's nothing matching.")}
           ELSE {Ok(ValueToString(pt.payload.answer)) :
                    pt \in Top1(collections[CACHE_COLLECTION_NAME],
                                points[CACHE_COLLECTION_NAME], q)}
          : reply \in PointReplies(CACHE_COLLECTION_NAME)}

\* search: limit-1 search of the knowledge collection; the `document` field
\* of the first result, converted with to_string()
SearchResults(q) ==
    UNION {IF reply # "ok" THEN {Err(reply)}
           ELSE IF points[REGULAR_COLLECTION_NAME] = {}
                THEN {Err("There's nothing matching.")}
           ELSE {Ok(ValueToString(pt.payload.document)) :
                    pt \in Top1(collections[REGULAR_COLLECTION_NAME],
                                points[REGULAR_COLLECTION_NAME], q)}
          : reply \in PointReplies(REGULAR_COLLECTION_NAME)}

\* prompt: the chat completion request fails; or it returns no choices and
\* `res.choices[0]` is out of bounds; or the first choice has no content;
\* or the content of the first choice is returned
PromptResults(p, context) ==
    {Err("openai"),
     Panicked("index out of bounds"),
     Err("There was no result from OpenAI")}
        \cup {Ok(a) : a \in Answers}

\* variant: the point identifier is derived from the embedding
AddToCachePointContentId(emb, answer) ==
    PointStruct(<<"id", emb>>, emb, [answer |-> answer])

\* variant: the point identifier is a fixed token, not a fresh one
AddToCachePointFixedId(emb, answer) ==
    PointStruct(0, emb, [answer |-> answer])

\* variant: the payload holds the serialised form of the answer
AddToCachePointSerialised(emb, answer) ==
    PointStruct(nextId, emb, [answer |-> ValueToString(answer)])

\* add_to_cache: the point it upserts into the cache collection
AddToCachePoint(emb, answer) ==
    PointStruct(nextId, emb, [answer |-> answer])

\* add_to_cache: Ok(the point) once the store has acknowledged the upsert,
\* else the store's error
AddToCacheResults(emb, answer) ==
    {IF reply = "ok" THEN Ok(AddToCachePoint(emb, answer)) ELSE Err(reply)
        : reply \in PointReplies(CACHE_COLLECTION_NAME)}

(* ---------------------------------------------------------------------- *)
(* The `prompt` handler, one action per awaited call                       *)
(* ---------------------------------------------------------------------- *)
\* Ok(text): the handler's success response
OkResponse(text) == [status |-> 200, body |-> text]

\* Err((StatusCode::INTERNAL_SERVER_ERROR, format!("<stage>: {e}")))
ErrResponse(stage, e) ==
    [status |-> INTERNAL_SERVER_ERROR, body |-> <<stage, e>>]

Return(r, resp) ==
    /\ pc' = [pc EXCEPT ![r] = "done"]
    /\ response' = [response EXCEPT ![r] = resp]

Goto(r, to) ==
    /\ pc' = [pc EXCEPT ![r] = to]
    /\ UNCHANGED response

\* a panic unwinds the handler: the request gets no response
Unwind(r) ==
    /\ pc' = [pc EXCEPT ![r] = "panicked"]
    /\ UNCHANGED response

Called(r, op, args, res) ==
    calls' = [calls EXCEPT ![r] =
                Append(@, [op |-> op, args |-> args, result |-> res])]

\* the router hands a request to the handler (requests are numbered in the
\* order they arrive)
Arrive(r) ==
    /\ mainPc = "serving"
    /\ pc[r] = "idle"
    /\ \A o \in Reqs : o < r => pc[o] # "idle"
    /\ \E p \in Prompts : promptText' = [promptText EXCEPT ![r] = p]
    /\ Goto(r, "embed_prompt")
    /\ UNCHANGED <<embedding, search_result, llm_response, calls>>
    /\ UNCHANGED mainVars
    /\ UNCHANGED storeVars

\* variant: an embedding error is not returned, the pipeline goes on
HandleEmbedPromptContinue(r, res) ==
    /\ embedding' = [embedding EXCEPT ![r] =
            IF res.kind = "Ok" THEN res.value ELSE EmbeddingOf(promptText[r])]
    /\ Goto(r, "search_cache")

\* let embedding = match state.embed_prompt(..).await { Ok / Err => return }
HandleEmbedPrompt(r, res) ==
    IF res.kind = "Ok"
    THEN /\ embedding' = [embedding EXCEPT ![r] = res.value]
         /\ Goto(r, "search_cache")
    ELSE /\ Return(r, ErrResponse(
                "An error occurred while embedding the prompt: ", res.value))
         /\ UNCHANGED embedding

EmbedPrompt(r) ==
    /\ pc[r] = "embed_prompt"
    /\ \E res \in EmbedPromptResults(promptText[r]) :
        /\ Called(r, "embed_prompt", <<promptText[r]>>, res)
        /\ HandleEmbedPrompt(r, res)
    /\ UNCHANGED <<promptText, search_result, llm_response>>
    /\ UNCHANGED mainVars
    /\ UNCHANGED storeVars

\* variant: a cache hit is not returned, the pipeline goes on
HandleSearchCacheIgnoreHit(r, res) ==
    Goto(r, "search")

\* variant: a cache-search error is returned instead of treated as a miss
HandleSearchCacheFailClosed(r, res) ==
    IF res.kind = "Ok"
    THEN Return(r, OkResponse(res.value))
    ELSE IF res.value = "There's nothing matching."
    THEN Goto(r, "search")
    ELSE Return(r, ErrResponse(
            "An error occurred while searching the cache: ", res.value))

\* if let Ok(answer) = state.search_cache(..).await { return Ok(answer); }
HandleSearchCache(r, res) ==
    IF res.kind = "Ok"
    THEN Return(r, OkResponse(res.value))
    ELSE Goto(r, "search")

SearchCache(r) ==
    /\ pc[r] = "search_cache"
    /\ \E res \in SearchCacheResults(embedding[r]) :
        /\ Called(r, "search_cache", <<embedding[r]>>, res)
        /\ HandleSearchCache(r, res)
    /\ UNCHANGED <<promptText, embedding, search_result, llm_response>>
    /\ UNCHANGED mainVars
    /\ UNCHANGED storeVars

\* variant: a failed knowledge search is tried again
HandleSearchRetry(r, res) ==
    IF res.kind = "Ok"
    THEN /\ search_result' = [search_result EXCEPT ![r] = res.value]
         /\ Goto(r, "prompt")
    ELSE /\ Goto(r, "search")
         /\ UNCHANGED search_result

\* variant: a failed knowledge search yields an empty context
HandleSearchContinue(r, res) ==
    /\ search_result' = [search_result EXCEPT ![r] =
            IF res.kind = "Ok" THEN res.value ELSE <<>>]
    /\ Goto(r, "prompt")

\* let search_result = match state.search(..).await { Ok / Err => return }
HandleSearch(r, res) ==
    IF res.kind = "Ok"
    THEN /\ search_result' = [search_result EXCEPT ![r] = res.value]
         /\ Goto(r, "prompt")
    ELSE /\ Return(r, ErrResponse(
                "An error occurred while prompting: ", res.value))
         /\ UNCHANGED search_result

Search(r) ==
    /\ pc[r] = "search"
    /\ \E res \in SearchResults(embedding[r]) :
        /\ Called(r, "search", <<embedding[r]>>, res)
        /\ HandleSearch(r, res)
    /\ UNCHANGED <<promptText, embedding, llm_response>>
    /\ UNCHANGED mainVars
    /\ UNCHANGED storeVars

\* let llm_response = match state.prompt(..).await { Ok / Err => return }
HandlePrompt(r, res) ==
    IF res.kind = "Ok"
    THEN /\ llm_response' = [llm_response EXCEPT ![r] = res.value]
         /\ Goto(r, "add_to_cache")
    ELSE IF res.kind = "Err"
    THEN /\ Return(r, ErrResponse(
                "Something went wrong while prompting: ", res.value))
         /\ UNCHANGED llm_response
    ELSE /\ Unwind(r)
         /\ UNCHANGED llm_response

Prompt(r) ==
    /\ pc[r] = "prompt"
    /\ \E res \in PromptResults(promptText[r], search_result[r]) :
        /\ Called(r, "prompt", <<promptText[r], search_result[r]>>, res)
        /\ HandlePrompt(r, res)
    /\ UNCHANGED <<promptText, embedding, search_result>>
    /\ UNCHANGED mainVars
    /\ UNCHANGED storeVars

\* variant: cache population is best effort
HandleAddToCacheBestEffort(r, res) ==
    Return(r, OkResponse(llm_response[r]))

\* if let Err(e) = state.add_to_cache(..).await { return Err } Ok(llm_response)
HandleAddToCache(r, res) ==
    IF res.kind = "Ok"
    THEN Return(r, OkResponse(llm_response[r]))
    ELSE Return(r, ErrResponse(
            "Something went wrong while adding item to the cache: ", res.value))

AddToCache(r) ==
    /\ pc[r] = "add_to_cache"
    /\ \E res \in AddToCacheResults(embedding[r], llm_response[r]) :
        /\ IF res.kind = "Ok"
           THEN /\ UpsertPoints(CACHE_COLLECTION_NAME, res.value)
                /\ nextId' = nextId + 1
           ELSE UNCHANGED <<wal, nextId>>
        /\ Called(r, "add_to_cache", <<embedding[r], llm_response[r]>>,
                  IF res.kind = "Ok" THEN Ok(<<>>) ELSE res)
        /\ HandleAddToCache(r, res)
    /\ UNCHANGED <<promptText, embedding, search_result, llm_response>>
    /\ UNCHANGED <<collections, points>>
    /\ UNCHANGED mainVars

\* the store applies an acknowledged upsert
StoreApplies ==
    /\ \E name \in CollectionNames : StoreApply(name)
    /\ UNCHANGED <<collections, nextId>>
    /\ UNCHANGED mainVars
    /\ UNCHANGED reqVars

Next ==
    \/ MainCreate1
    \/ MainCreate2
    \/ IngestReadFile
    \/ IngestEmbed
    \/ IngestUpsert
    \/ StoreApplies
    \/ \E r \in Reqs : Arrive(r)
    \/ \E r \in Reqs : EmbedPrompt(r)
    \/ \E r \in Reqs : SearchCache(r)
    \/ \E r \in Reqs : Search(r)
    \/ \E r \in Reqs : Prompt(r)
    \/ \E r \in Reqs : AddToCache(r)

Spec == Init /\ [][Next]_vars

TypeOK ==
    /\ mainPc \in {"create1", "create2", "read_file", "embed_file",
                   "upsert_file", "serving", "failed"}
    /\ \A r \in Reqs : pc[r] \in {"idle", "embed_prompt", "search_cache",
            "search", "prompt", "add_to_cache", "done", "panicked"}

(* ---------------------------------------------------------------------- *)
(* Properties                                                              *)
(* ---------------------------------------------------------------------- *)
\* positions of the calls of `op` that request r has made
CallsOf(r, op) == {i \in DOMAIN calls[r] : calls[r][i].op = op}

Invoked(r, op) == CallsOf(r, op) # {}

LastCall(r) == calls[r][Len(calls[r])]

\* C1: a request whose cache lookup returned an answer has responded with
\* exactly that answer, and has invoked neither the knowledge search, nor
\* the generation call, nor the cache write.
C1_CacheHitShortCircuits ==
    \A r \in Reqs : \A i \in CallsOf(r, "search_cache") :
        calls[r][i].result.kind = "Ok" =>
            /\ pc[r] = "done"
            /\ response[r] = OkResponse(calls[r][i].result.value)
            /\ ~Invoked(r, "search")
            /\ ~Invoked(r, "prompt")
            /\ ~Invoked(r, "add_to_cache")

C1_Witness ==
    \E r \in Reqs : \E i \in CallsOf(r, "search_cache") :
        /\ calls[r][i].result.kind = "Ok"
        /\ Invoked(r, "embed_prompt")
        /\ response[r] # NoResponse

\* the step in which request r returns from add_to_cache
CacheWriteStep(r) ==
    /\ pc[r] = "add_to_cache"
    /\ pc'[r] # "add_to_cache"

\* the step adds exactly one point to the cache collection: the request's
\* embedding with the generated answer as payload, and the request responds
\* with the generated answer
AddsOnePoint(r) ==
    /\ \E pt \in Stored(CACHE_COLLECTION_NAME)' :
        /\ pt \notin Stored(CACHE_COLLECTION_NAME)
        /\ Stored(CACHE_COLLECTION_NAME)' =
                Stored(CACHE_COLLECTION_NAME) \cup {pt}
        /\ pt.vector = embedding[r]
        /\ pt.payload = [answer |-> llm_response[r]]
    /\ response'[r] = OkResponse(llm_response[r])

\* a request is at the cache write only after a miss, a successful
\* retrieval and a successful generation
AtCacheWriteAfterMiss ==
    \A r \in Reqs : pc[r] = "add_to_cache" =>
        /\ \A i \in CallsOf(r, "search_cache") : calls[r][i].result.kind = "Err"
        /\ \E i \in CallsOf(r, "search") : calls[r][i].result.kind = "Ok"
        /\ LastCall(r).op = "prompt"
        /\ LastCall(r).result = Ok(llm_response[r])

\* C2 as stated: every request that missed the cache and whose retrieval
\* and generation succeeded adds exactly one new point (its embedding, the
\* generated answer) to the cache collection and responds with the
\* generated answer.
C2_MissAlwaysPopulates ==
    [][\A r \in Reqs : CacheWriteStep(r) => AddsOnePoint(r)]_vars

\* C2 amended: every request that missed the cache and whose retrieval,
\* generation and cache write succeeded adds exactly one new point (its
\* embedding, the generated answer) to the cache collection and responds
\* with the generated answer; no other step of a request adds a point.
C2_MissPopulatesWhenWriteSucceeds ==
    /\ []AtCacheWriteAfterMiss
    /\ [][/\ \A r \in Reqs :
                (CacheWriteStep(r) /\ LastCall(r)'.result.kind = "Ok")
                    => AddsOnePoint(r)
          /\ Stored(CACHE_COLLECTION_NAME)' # Stored(CACHE_COLLECTION_NAME)
                => \E r \in Reqs : CacheWriteStep(r)]_vars

C2_Witness ==
    \E r \in Reqs :
        /\ pc[r] = "done"
        /\ Invoked(r, "add_to_cache")
        /\ LastCall(r).result.kind = "Ok"
        /\ response[r] = OkResponse(llm_response[r])
        /\ \E pt \in Stored(CACHE_COLLECTION_NAME) :
            /\ pt.vector = embedding[r]
            /\ pt.payload = [answer |-> llm_response[r]]

\* C3: after a failed cache search (an error of the store, or no result)
\* the request has no error response from it: it is about to invoke, or has
\* invoked as its next call, the knowledge search with the same embedding.
C3_CacheSearchFailsOpen ==
    \A r \in Reqs : \A i \in CallsOf(r, "search_cache") :
        calls[r][i].result.kind = "Err" =>
            IF i = Len(calls[r])
            THEN pc[r] = "search" /\ response[r] = NoResponse
            ELSE /\ calls[r][i + 1].op = "search"
                 /\ calls[r][i + 1].args = calls[r][i].args
                 /\ calls[r][i].args = <<embedding[r]>>

C3_Witness ==
    \E r \in Reqs : \E i \in CallsOf(r, "search_cache") :
        /\ calls[r][i].result = Err("transport")
        /\ i < Len(calls[r])
        /\ calls[r][i + 1].op = "search"

\* C4: a request whose embedding failed (no vectors returned, or the service
\* failed) has ended with the embedding error response and has made no other
\* call: no cache search, no knowledge search, no generation, no cache write.
C4_EmbeddingErrorStopsRequest ==
    \A r \in Reqs : \A i \in CallsOf(r, "embed_prompt") :
        calls[r][i].result.kind = "Err" =>
            /\ pc[r] = "done"
            /\ response[r] = ErrResponse(
                    "An error occurred while embedding the prompt: ",
                    calls[r][i].result.value)
            /\ Len(calls[r]) = 1

C4_Witness ==
    \E r \in Reqs :
        /\ Invoked(r, "embed_prompt")
        /\ calls[r][1].result =
                Err("There were no embeddings returned by OpenAI!")
        /\ pc[r] = "done"

\* C5: a request whose knowledge search returned no results has ended with
\* the no-match error response; it has invoked neither the generation call
\* nor the cache write.
C5_NoMatchStopsRequest ==
    \A r \in Reqs : \A i \in CallsOf(r, "search") :
        calls[r][i].result = Err("There's nothing matching.") =>
            /\ pc[r] = "done"
            /\ response[r] = ErrResponse(
                    "An error occurred while prompting: ",
                    "There's nothing matching.")
            /\ ~Invoked(r, "prompt")
            /\ ~Invoked(r, "add_to_cache")

C5_Witness ==
    \E r \in Reqs : \E i \in CallsOf(r, "search") :
        /\ calls[r][i].result = Err("There's nothing matching.")
        /\ Invoked(r, "search_cache")
        /\ pc[r] = "done"

\* C6: a request whose cache write failed after a successful generation has
\* ended with the cache-write error response, not with the generated answer.
C6_CacheWriteFailureAborts ==
    \A r \in Reqs : \A i \in CallsOf(r, "add_to_cache") :
        calls[r][i].result.kind = "Err" =>
            /\ pc[r] = "done"
            /\ response[r] = ErrResponse(
                    "Something went wrong while adding item to the cache: ",
                    calls[r][i].result.value)
            /\ response[r].status = INTERNAL_SERVER_ERROR
            /\ response[r].body # llm_response[r]

C6_Witness ==
    \E r \in Reqs : \E i \in CallsOf(r, "add_to_cache") :
        /\ calls[r][i].result.kind = "Err"
        /\ llm_response[r] \in Answers
        /\ pc[r] = "done"

\* C7: collection creation is idempotent: the store's "already exists"
\* answer to a create call is swallowed, start-up never fails with it.
C7_CreateIsIdempotent ==
    mainErr # "already_exists"

\* C8: whenever the router is serving, start-up has declared both
\* collections and both exist with their metric: the knowledge collection
\* (cosine) and the cache collection (Euclidean).
C8_BothCollectionsCreated ==
    mainPc = "serving" =>
        /\ declared = CollectionNames
        /\ collections[REGULAR_COLLECTION_NAME] = "Cosine"
        /\ collections[CACHE_COLLECTION_NAME] = "Euclid"

\* C9: a failed generation (no completion choices, or the service
\* unreachable) is an error value that the handler turns into the generation
\* error response; the request does not panic and attempts no cache write.
C9_GenerationFailureIsErrorResponse ==
    \A r \in Reqs : \A i \in CallsOf(r, "prompt") :
        calls[r][i].result.kind # "Ok" =>
            /\ calls[r][i].result.kind = "Err"
            /\ pc[r] = "done"
            /\ response[r] = ErrResponse(
                    "Something went wrong while prompting: ",
                    calls[r][i].result.value)
            /\ ~Invoked(r, "add_to_cache")

\* C10: the text a cache lookup returns is exactly the answer text that
\* add_to_cache wrote into the point it found.
C10_CacheRoundTrip ==
    \A r \in Reqs : \A i \in CallsOf(r, "search_cache") :
        calls[r][i].result.kind = "Ok" =>
            \E pt \in Stored(CACHE_COLLECTION_NAME) :
                calls[r][i].result.value = pt.payload.answer

\* the step in which request r returns from search_cache
CacheLookupStep(r) ==
    /\ pc[r] = "search_cache"
    /\ pc'[r] # "search_cache"

\* C11: a cache lookup that finds a point responds with the answer text of
\* a nearest cached point under the cache collection's Euclidean metric
\* (so a prompt P2 nearest to P1's point receives P1's cached answer).
C11_NearestCachedAnswerReturned ==
    [][\A r \in Reqs : (CacheLookupStep(r) /\ pc'[r] = "done") =>
            \E pt \in Top1("Euclid", points[CACHE_COLLECTION_NAME], embedding[r]) :
                response'[r] = OkResponse(pt.payload.answer)]_vars

\* the store answered the cache search of the step (with or without points)
CacheSearchAnswered(r) ==
    LastCall(r)'.result \notin {Err("transport"), Err("not_found")}

\* the step answers the request from the cache
AnsweredFromCache(r) ==
    /\ LastCall(r)'.result.kind = "Ok"
    /\ pc'[r] = "done"
    /\ response'[r] = OkResponse(LastCall(r)'.result.value)

StageOrder ==
    <<"embed_prompt", "search_cache", "search", "prompt", "add_to_cache">>

\* C13: within a request the calls occur only in the fixed order embed,
\* cache lookup, retrieve, generate, cache store, each at most once (no
\* retry); a stage is entered only after the one before it succeeded, except
\* that retrieve follows a failed cache lookup and a cache hit ends the
\* request; the answer is returned only after a hit or a cache store.
C13_StagesInFixedOrder ==
    \A r \in Reqs :
        /\ Len(calls[r]) <= Len(StageOrder)
        /\ \A i \in DOMAIN calls[r] : calls[r][i].op = StageOrder[i]
        /\ \A i \in DOMAIN calls[r] : i < Len(calls[r]) =>
                calls[r][i].result.kind =
                    (IF calls[r][i].op = "search_cache" THEN "Err" ELSE "Ok")
        /\ response[r].status = 200 =>
                /\ LastCall(r).op \in {"search_cache", "add_to_cache"}
                /\ LastCall(r).result.kind = "Ok"
        /\ response[r] # NoResponse => pc[r] = "done"

C13_Witness ==
    \E r \in Reqs :
        /\ Len(calls[r]) = Len(StageOrder)
        /\ response[r].status = 200
        /\ \E o \in Reqs : Len(calls[o]) = 2 /\ response[o].status = 200

\* C14: the cache collection is append-only: no step removes or changes a
\* point it holds (identifier, vector and payload stay), a searchable point
\* stays searchable, and a point that is added carries an identifier that
\* no point of the collection has.
C14_CacheAppendOnly ==
    [][/\ Stored(CACHE_COLLECTION_NAME) \subseteq Stored(CACHE_COLLECTION_NAME)'
       /\ points[CACHE_COLLECTION_NAME] \subseteq points'[CACHE_COLLECTION_NAME]
       /\ \A pt \in Stored(CACHE_COLLECTION_NAME)' :
            pt \notin Stored(CACHE_COLLECTION_NAME) =>
                \A o \in Stored(CACHE_COLLECTION_NAME) : o.id # pt.id]_vars

C14_Witness ==
    /\ Cardinality(Stored(CACHE_COLLECTION_NAME)) = 2
    /\ Cardinality({pt.id : pt \in Stored(CACHE_COLLECTION_NAME)}) = 2
    /\ points[CACHE_COLLECTION_NAME] # {}
    /\ \A r \in Reqs : pc[r] = "done"

\* a step of the handler of request r
RequestStep(r) == pc'[r] # pc[r]

\* C15: the only store write of a request is the one cache upsert after a
\* successful generation: no step of a request changes the knowledge
\* collection, and a step other than a successful add_to_cache (a hit, an
\* error at embed, retrieve or generate, a failed cache write) leaves both
\* collections as they are.
C15_OnlyCacheUpsertWrites ==
    [][\A r \in Reqs : RequestStep(r) =>
        /\ points' = points
        /\ wal'[REGULAR_COLLECTION_NAME] = wal[REGULAR_COLLECTION_NAME]
        /\ Stored(REGULAR_COLLECTION_NAME)' = Stored(REGULAR_COLLECTION_NAME)
        /\ IF /\ pc[r] = "add_to_cache"
              /\ LastCall(r).op = "prompt"
              /\ LastCall(r).result.kind = "Ok"
              /\ LastCall(r)'.result.kind = "Ok"
           THEN \E pt \in Stored(CACHE_COLLECTION_NAME)' :
                    wal'[CACHE_COLLECTION_NAME] =
                        Append(wal[CACHE_COLLECTION_NAME], pt)
           ELSE wal' = wal]_vars

C15_Witness ==
    /\ Cardinality(Stored(CACHE_COLLECTION_NAME)) = 1
    /\ \E r \in Reqs :
        /\ pc[r] = "done"
        /\ LastCall(r).op = "add_to_cache"
        /\ LastCall(r).result.kind = "Ok"
    /\ \E o \in Reqs :
        /\ pc[o] = "done"
        /\ LastCall(o).op = "prompt"
        /\ response[o].status = INTERNAL_SERVER_ERROR

\* C16: a request whose handler has ended has exactly one response: the
\* answer text, or the error message of the one stage that failed.
C16_EndedRequestHasOneResponse ==
    \A r \in Reqs : pc[r] \in {"done", "panicked"} =>
        /\ response[r] # NoResponse
        /\ \/ response[r].status = 200
           \/ /\ response[r].status = INTERNAL_SERVER_ERROR
              /\ response[r].body[2] = LastCall(r).result.value

\* C17: once ingestion has succeeded the knowledge collection holds one
\* point per data line of the file (header excluded), and each point pairs
\* the embedding of a line with that line's text as its `document`.
C17_OnePointPerDataLine ==
    mainPc = "serving" =>
        LET chunks == ChunkedFileContents(file_contents) IN
        /\ Cardinality(Stored(REGULAR_COLLECTION_NAME)) = Len(chunks)
        /\ \A i \in DOMAIN chunks :
            \E pt \in Stored(REGULAR_COLLECTION_NAME) :
                /\ pt.vector = EmbeddingOf(chunks[i])
                /\ pt.payload = [document |-> chunks[i]]

\* the requests that were answered
Answered == {r \in Reqs : response[r].status = 200}

\* the requests whose cache write the store acknowledged
Wrote ==
    {r \in Reqs : /\ Invoked(r, "add_to_cache")
                  /\ LastCall(r).result.kind = "Ok"}

\* C18 as stated: the number of cache points grows by one with every
\* successful request.
C18_OnePointPerSuccessfulRequest ==
    Cardinality(Stored(CACHE_COLLECTION_NAME)) = Cardinality(Answered)

\* C18 amended: a request whose cache write succeeds makes the number of
\* cache points grow by one, also when a point of the same or a near
\* embedding is stored already (nothing is updated in place); every other
\* step of a request, a cache hit included, leaves the number as it is.
C18_OnePointPerCacheWrite ==
    [][\A r \in Reqs : RequestStep(r) =>
        Cardinality(Stored(CACHE_COLLECTION_NAME)') =
            Cardinality(Stored(CACHE_COLLECTION_NAME))
                + (IF pc[r] = "add_to_cache" /\ LastCall(r)'.result.kind = "Ok"
                   THEN 1 ELSE 0)]_vars

C18_Witness ==
    \E p1, p2 \in Stored(CACHE_COLLECTION_NAME) :
        /\ p1 # p2
        /\ p1.vector = p2.vector
        /\ \A r \in Reqs : r \in Wrote /\ pc[r] = "done"

\* C19: under every interleaving the cache collection holds as many points
\* as there are requests whose cache write succeeded, one for each of them
\* (none lost, none overwritten); a request that looks up while the
\* collection holds no point misses and goes on to retrieval.
C19_OnePointPerCompletedWrite ==
    /\ [](/\ Cardinality(Stored(CACHE_COLLECTION_NAME)) = Cardinality(Wrote)
          /\ \A r \in Wrote : \E pt \in Stored(CACHE_COLLECTION_NAME) :
                /\ pt.vector = embedding[r]
                /\ pt.payload.answer = llm_response[r])
    /\ [][\A r \in Reqs :
            (CacheLookupStep(r) /\ Stored(CACHE_COLLECTION_NAME) = {}) =>
                /\ LastCall(r)'.result.kind = "Err"
                /\ pc'[r] = "search"]_vars

C19_Witness ==
    /\ Wrote = Reqs
    /\ \A r, o \in Reqs : promptText[r] = promptText[o]
    /\ \A r \in Reqs : calls[r][2].result = Err("There's nothing matching.")
    /\ Cardinality(Stored(CACHE_COLLECTION_NAME)) = NumReqs

\* C20: every point of the cache collection carries exactly an `answer`
\* text and every point of the knowledge collection exactly a `document`
\* text, so the field that search_cache and search extract is there.
C20_PayloadsWellFormed ==
    /\ \A pt \in Stored(CACHE_COLLECTION_NAME) :
        /\ DOMAIN pt.payload = {"answer"}
        /\ pt.payload.answer \in Answers
    /\ \A pt \in Stored(REGULAR_COLLECTION_NAME) :
        /\ DOMAIN pt.payload = {"document"}
        /\ pt.payload.document \in Files

C20_Witness ==
    /\ points[CACHE_COLLECTION_NAME] # {}
    /\ points[REGULAR_COLLECTION_NAME] # {}
    /\ \E r \in Reqs : \E i \in CallsOf(r, "search") :
            calls[r][i].result.kind = "Ok"
    /\ \E r \in Reqs : \E i \in CallsOf(r, "search_cache") :
            calls[r][i].result.kind = "Ok"

====
